---- MODULE Spec2Model ----
(***************************************************************************)
(* Model of package config (juztin/config): a JSON configuration store.    *)
(*                                                                         *)
(* The document is a Go map[string]interface{}.  A Go map is modelled as a *)
(* function whose DOMAIN is the set of keys present.  A dynamic Go value   *)
(* is a record tagged with its dynamic type:                               *)
(*   [t |-> "nil"]                  the nil interface (JSON null)          *)
(*   [t |-> "bool",    v |-> b]     bool                                   *)
(*   [t |-> "string",  v |-> s]     string                                 *)
(*   [t |-> "float64", v |-> n]     float64 (every JSON number)            *)
(*   [t |-> "int",     v |-> n]     int (only ever stored by SetInt)       *)
(*   [t |-> "slice"]                []interface{} (JSON array)             *)
(*   [t |-> "map",     v |-> m]     map[string]interface{} (JSON object)   *)
(*                                                                         *)
(* Numbers.  An int is a pair <<big, u>> standing for big * 2^63 + u, a    *)
(* float64 is a pair <<big, x>> standing for big * 2^63 + x / 10 (x counts *)
(* tenths).  The symbolic unit 2^63 lets the model speak about the ends of *)
(* the 64-bit int range without computing with 64-bit magnitudes.          *)
(***************************************************************************)
EXTENDS Integers, Sequences, FiniteSets, TLC

VARIABLES
    arch,      \* the platform of the build: decides out-of-range float->int
    fs,        \* the two candidate files: [exe |-> content, cwd |-> content]
    cfg,       \* the package-level document
    loaded,    \* the package-level flag of config.go
    status,    \* "running", "exited" (log.Fatalf) or "panicked"
    last,      \* the last API call and how it ended
    dirty,     \* a Set call has written since the document was installed
    other,     \* the document of a Config built independently with ReadFrom
    mu,        \* holder of cfg.mu, "none" when free
    pc,        \* position of the writer and of the setter goroutine
    chk,       \* per setter goroutine: the result of the existence check
    obs,       \* per reader goroutine: its position and what its call observed
    installed, \* the documents installed so far (initial one and SetConfig's)
    shadow,    \* accesses to cfg.m so far: [r |-> unlocked read, w |-> write]
    calls      \* calls made so far in a concurrent scenario: [set, install]

vars == <<arch, fs, cfg, loaded, status, last, dirty, other, mu, pc, chk, obs, installed,
          shadow, calls>>

----------------------------------------------------------------------------
(* Bounds of the model *)

\* largest magnitude (in units) of an ordinary number written by a Set call
MaxNum == 7

\* number of reader goroutines in the concurrent scenario
NumReaders == 2

\* calls of Set made by the setter goroutine of the concurrent scenario
MaxSet == 2

\* documents installed by the replacing goroutine of a concurrent scenario
MaxInstall == 2

----------------------------------------------------------------------------
(* Keys and Go values *)

Key == {"host", "port", "debug", "links"}

Nil == [t |-> "nil"]
GoBool(b) == [t |-> "bool", v |-> b]
GoString(s) == [t |-> "string", v |-> s]
GoFloat64(n) == [t |-> "float64", v |-> n]
GoInt(n) == [t |-> "int", v |-> n]
GoSlice == [t |-> "slice"]
GoMap(m) == [t |-> "map", v |-> m]

\* the nil map: no key is present
NilMap == [k \in {} |-> Nil]

\* m[key] = val on a Go map: inserts the key when it is absent
Put(m, key, val) == [k \in (DOMAIN m) \cup {key} |-> IF k = key THEN val ELSE m[k]]

\* the ends of the 64-bit int range, as <<big, u>>
MinInt64 == <<-1, 0>>
MaxInt64 == <<1, -1>>

\* is the integer <<big, u>> (big * 2^63 + u) an int64?
InInt64(n) ==
    \/ n[1] = 0
    \/ n[1] = -1 /\ n[2] >= 0
    \/ n[1] = 1 /\ n[2] < 0

\* x / 10 truncated toward zero, for an ordinary count of tenths
TruncTenths(x) == IF x >= 0 THEN x \div 10 ELSE -((-x) \div 10)

\* the mathematical integer part of the float64 <<big, x>>
Trunc(f) == <<f[1], TruncTenths(f[2])>>

\* float64(n) of the int <<big, u>>: exact for ordinary magnitudes; near the
\* ends of the range the nearest float64 is a multiple of 2^63
IntToFloat64(n) == IF n[1] = 0 THEN <<0, n[2] * 10>> ELSE <<n[1], 0>>

\* int(f) of the float64 f.  In range: truncation toward zero.  Out of range
\* the Go specification leaves the result to the implementation: amd64
\* (CVTTSD2SQ) yields the "integer indefinite" value MinInt64, arm64 (FCVTZS)
\* saturates.
Float64ToInt(f, a) ==
    IF InInt64(Trunc(f)) THEN Trunc(f)
    ELSE IF a = "amd64" THEN MinInt64
    ELSE IF f[1] > 0 THEN MaxInt64 ELSE MinInt64

----------------------------------------------------------------------------
(* The configuration file: JSON text and its decoding *)

JNull == [t |-> "null"]
JBool(b) == [t |-> "boolean", v |-> b]
JString(s) == [t |-> "string", v |-> s]
JNumber(n) == [t |-> "number", v |-> n]
JArray == [t |-> "array"]
JObject(m) == [t |-> "object", v |-> m]

\* what a candidate path can hold
Missing == [k |-> "missing"]
Unreadable == [k |-> "unreadable"]
Invalid == [k |-> "text", valid |-> FALSE]
Text(j) == [k |-> "text", valid |-> TRUE, json |-> j]

\* json.Unmarshal into an interface{}: the Go value of a JSON value.  Every
\* JSON number becomes a float64, an object a map[string]interface{}, null the
\* nil interface.
RECURSIVE Decode(_)
Decode(j) ==
    CASE j.t = "null" -> Nil
      [] j.t = "boolean" -> GoBool(j.v)
      [] j.t = "string" -> GoString(j.v)
      [] j.t = "number" -> GoFloat64(j.v)
      [] j.t = "array" -> GoSlice
      [] j.t = "object" -> GoMap([k \in DOMAIN j.v |-> Decode(j.v[k])])

Unmarshal(c) ==
    IF c.valid THEN [err |-> FALSE, j |-> Decode(c.json)]
    ELSE [err |-> TRUE, j |-> Nil]

\* getConfig: the executable's directory first, then the working directory
getConfig(f) ==
    IF f.exe.k # "missing"
        THEN [c |-> f.exe, e |-> f.exe.k = "unreadable"]
    ELSE IF f.cwd.k # "missing"
        THEN [c |-> f.cwd, e |-> f.cwd.k = "unreadable"]
    ELSE [c |-> Missing, e |-> TRUE]

\* the bug of a Load that reads the file whatever the flag says
LoadBody_ignoresFlag(f, c0, ld) ==
    LET g == getConfig(f) IN
        IF g.e THEN [out |-> "error", cfg |-> c0, loaded |-> ld]
        ELSE LET u == Unmarshal(g.c) IN
            IF u.err THEN [out |-> "error", cfg |-> c0, loaded |-> ld]
            ELSE IF u.j.t # "map" THEN [out |-> "panic", cfg |-> c0, loaded |-> ld]
            ELSE [out |-> "nil", cfg |-> u.j.v, loaded |-> TRUE]

\* the body of Load, entered with the flag ld and the document c0:
\* the value returned ("nil", "error") or "panic", the document and the flag
LoadBody(f, c0, ld) ==
    IF ld THEN [out |-> "nil", cfg |-> c0, loaded |-> ld]
    ELSE LET g == getConfig(f) IN
        IF g.e THEN [out |-> "error", cfg |-> c0, loaded |-> ld]
        ELSE LET u == Unmarshal(g.c) IN
            IF u.err THEN [out |-> "error", cfg |-> c0, loaded |-> ld]
            ELSE IF u.j.t # "map" THEN [out |-> "panic", cfg |-> c0, loaded |-> ld]
            ELSE [out |-> "nil", cfg |-> u.j.v, loaded |-> TRUE]

\* ReadFrom(b): the Config of the bytes b.  The value returned ("nil",
\* "error") or "panic" of the unchecked j.(map[string]interface{}), and the
\* map of the Config returned (the nil map of *new(Config) on an error)
ReadFrom(b) ==
    LET u == Unmarshal(b) IN
        IF u.err THEN [out |-> "error", m |-> NilMap]
        ELSE IF u.j.t # "map" THEN [out |-> "panic", m |-> NilMap]
        ELSE [out |-> "nil", m |-> u.j.v]

----------------------------------------------------------------------------
(* Key sets.  A []string of keys in map order is modelled as the set of its *)
(* elements; the nil slice is the empty set.                                *)

keys(m) == DOMAIN m

\* func (c Config) Keys(): reads the package-level cfg, named g here
ConfigKeys(c, g) == keys(g)

\* func (c Config) GroupKeys(group)
ConfigGroupKeys(c, group) ==
    IF group \in DOMAIN c /\ c[group].t = "map" THEN keys(c[group].v) ELSE {}

\* the package-level Keys() and GroupKeys(group) on the document g of cfg
Keys(g) == ConfigKeys(g, g)
GroupKeys(group, g) == ConfigGroupKeys(g, group)

----------------------------------------------------------------------------
(* Accessors: each returns [v |-> value, ok |-> found] *)

colBool(key, col) ==
    IF key \in DOMAIN col
        THEN IF col[key].t = "bool" THEN [v |-> col[key].v, ok |-> TRUE]
             ELSE [v |-> FALSE, ok |-> FALSE]
    ELSE [v |-> FALSE, ok |-> FALSE]

\* the bug of a String that reports every present key as found
colString_anyPresent(key, col) ==
    IF key \in DOMAIN col
        THEN IF col[key].t = "string" THEN [v |-> col[key].v, ok |-> TRUE]
             ELSE [v |-> "", ok |-> TRUE]
    ELSE [v |-> "", ok |-> FALSE]

colString(key, col) ==
    IF key \in DOMAIN col
        THEN IF col[key].t = "string" THEN [v |-> col[key].v, ok |-> TRUE]
             ELSE [v |-> "", ok |-> FALSE]
    ELSE [v |-> "", ok |-> FALSE]

\* the bug of an Int that knows only the float64 of a decoded document
colInt_float64Only(key, col, a) ==
    IF key \in DOMAIN col /\ col[key].t = "float64"
        THEN [v |-> Float64ToInt(col[key].v, a), ok |-> TRUE]
    ELSE [v |-> <<0, -1>>, ok |-> FALSE]

colInt(key, col, a) ==
    IF key \in DOMAIN col /\ col[key].t = "int"
        THEN [v |-> col[key].v, ok |-> TRUE]
    ELSE IF key \in DOMAIN col /\ col[key].t = "float64"
        THEN [v |-> Float64ToInt(col[key].v, a), ok |-> TRUE]
    ELSE [v |-> <<0, -1>>, ok |-> FALSE]

colFloat64(key, col) ==
    IF key \in DOMAIN col /\ col[key].t = "float64"
        THEN [v |-> col[key].v, ok |-> TRUE]
    ELSE IF key \in DOMAIN col /\ col[key].t = "int"
        THEN [v |-> IntToFloat64(col[key].v), ok |-> TRUE]
    ELSE [v |-> <<0, -10>>, ok |-> FALSE]

colVal(key, col) ==
    IF key \in DOMAIN col THEN [v |-> col[key], ok |-> TRUE]
    ELSE [v |-> Nil, ok |-> FALSE]

\* the root accessors Bool, String, Int, Float64, Val of the document c
RootBool(key, c) == colBool(key, c)
RootString(key, c) == colString(key, c)
RootInt(key, c, a) == colInt(key, c, a)
RootFloat64(key, c) == colFloat64(key, c)
RootVal(key, c) == colVal(key, c)

\* the group accessors: v, ok are named results and keep their zero values
\* unless the group exists and is a map
GroupBool(group, key, c) ==
    IF group \in DOMAIN c /\ c[group].t = "map" THEN colBool(key, c[group].v)
    ELSE [v |-> FALSE, ok |-> FALSE]

\* the bug of a group accessor that looks the key up in the root
GroupString_inRoot(group, key, c) == colString(key, c)

GroupString(group, key, c) ==
    IF group \in DOMAIN c /\ c[group].t = "map" THEN colString(key, c[group].v)
    ELSE [v |-> "", ok |-> FALSE]

GroupInt(group, key, c, a) ==
    IF group \in DOMAIN c /\ c[group].t = "map" THEN colInt(key, c[group].v, a)
    ELSE [v |-> <<0, 0>>, ok |-> FALSE]

GroupFloat64(group, key, c) ==
    IF group \in DOMAIN c /\ c[group].t = "map" THEN colFloat64(key, c[group].v)
    ELSE [v |-> <<0, 0>>, ok |-> FALSE]

GroupVal(group, key, c) ==
    IF group \in DOMAIN c /\ c[group].t = "map" THEN colVal(key, c[group].v)
    ELSE [v |-> Nil, ok |-> FALSE]

RootKinds == {"Bool", "String", "Int", "Float64", "Val"}
GroupKinds == {"GroupBool", "GroupString", "GroupInt", "GroupFloat64", "GroupVal"}
Kinds == RootKinds \cup GroupKinds

\* a call of the accessor named kind (group is ignored by a root accessor)
Accessor(kind, group, key, c, a) ==
    CASE kind = "Bool" -> RootBool(key, c)
      [] kind = "String" -> RootString(key, c)
      [] kind = "Int" -> RootInt(key, c, a)
      [] kind = "Float64" -> RootFloat64(key, c)
      [] kind = "Val" -> RootVal(key, c)
      [] kind = "GroupBool" -> GroupBool(group, key, c)
      [] kind = "GroupString" -> GroupString(group, key, c)
      [] kind = "GroupInt" -> GroupInt(group, key, c, a)
      [] kind = "GroupFloat64" -> GroupFloat64(group, key, c)
      [] kind = "GroupVal" -> GroupVal(group, key, c)

\* the bug of a required accessor that does not look at the found flag
Required_unchecked(kind, group, key, c, a) ==
    [out |-> "return", v |-> Accessor(kind, group, key, c, a).v]

\* Config.Required<kind>: log.Fatalf (the process exits) when not found
Required(kind, group, key, c, a) ==
    LET r == Accessor(kind, group, key, c, a) IN
    IF ~r.ok THEN [out |-> "exit", v |-> r.v] ELSE [out |-> "return", v |-> r.v]

\* required.<kind> (Required.Bool, ...): panics when not found
requiredPanic(kind, group, key, c, a) ==
    LET r == Accessor(kind, group, key, c, a) IN
    IF ~r.ok THEN [out |-> "panic", v |-> r.v] ELSE [out |-> "return", v |-> r.v]

----------------------------------------------------------------------------
(* Mutation: each Set writes only after its own accessor reported found *)

\* cfg[key] = val
writeRoot(key, val, c) == Put(c, key, val)

\* cfg[group].(map[string]interface{})[key] = val: the type assertion panics
\* when cfg[group] is absent (nil interface) or is not a map
writeGroupPanics(group, c) == ~(group \in DOMAIN c /\ c[group].t = "map")
writeGroup(group, key, val, c) == Put(c, group, GoMap(Put(c[group].v, key, val)))

SetInt(key, val, c, a) ==
    IF RootInt(key, c, a).ok THEN writeRoot(key, GoInt(val), c) ELSE c
SetFloat64(key, val, c) ==
    IF RootFloat64(key, c).ok THEN writeRoot(key, GoFloat64(val), c) ELSE c
SetBool(key, val, c) ==
    IF RootBool(key, c).ok THEN writeRoot(key, GoBool(val), c) ELSE c
\* the bug of a Set without its existence guard
SetString_unguarded(key, val, c) == writeRoot(key, GoString(val), c)

SetString(key, val, c) ==
    IF RootString(key, c).ok THEN writeRoot(key, GoString(val), c) ELSE c

SetGroupInt(group, key, val, c, a) ==
    IF GroupInt(group, key, c, a).ok THEN writeGroup(group, key, GoInt(val), c) ELSE c
SetGroupFloat64(group, key, val, c) ==
    IF GroupFloat64(group, key, c).ok THEN writeGroup(group, key, GoFloat64(val), c) ELSE c
SetGroupBool(group, key, val, c) ==
    IF GroupBool(group, key, c).ok THEN writeGroup(group, key, GoBool(val), c) ELSE c
SetGroupString(group, key, val, c) ==
    IF GroupString(group, key, c).ok THEN writeGroup(group, key, GoString(val), c) ELSE c

----------------------------------------------------------------------------
(* Inputs of the model *)

\* {"host":"google.com","debug":null,
\*  "links":{"host":"https://google.com","port":-3.7}}
ObjA ==
    Text(JObject([host |-> JString("google.com"), debug |-> JNull,
        links |-> JObject([host |-> JString("https://google.com"),
                           port |-> JNumber(<<0, -37>>)])]))

\* {"host":9223372036854775808,"port":3.7,"debug":true,"links":"notAMap"}
ObjB ==
    Text(JObject([host |-> JNumber(<<1, 0>>), port |-> JNumber(<<0, 37>>),
        debug |-> JBool(TRUE), links |-> JString("notAMap")]))

\* [1,2]: valid JSON whose top-level value is not an object
TopArray == Text(JArray)

ExeContents == {Missing, Unreadable, ObjB}
CwdContents == {Missing, Invalid, TopArray, ObjA}

\* a mapping handed to SetConfig: Go values, not only decoded JSON
MapC ==
    [host |-> GoSlice, port |-> GoInt(<<0, 80>>),
     links |-> GoMap([host |-> Nil, port |-> GoMap(NilMap),
                      debug |-> GoBool(TRUE), links |-> GoSlice])]

Mappings == {MapC}

IntVals == {<<0, MaxNum>>}
FloatVals == {<<0, -(10 * MaxNum) + 5>>}
StrVals == {"x"}

Archs == {"amd64", "arm64"}

\* the groups the calls of the model name: a map, a scalar or absent
Groups == {"links", "debug"}

----------------------------------------------------------------------------
(* The sequential API: every call runs to completion *)

Readers == 1..NumReaders

\* the goroutines of the concurrent scenario do not run
concVars == <<mu, pc, chk, obs, installed, shadow, calls>>

ConcIdle ==
    /\ mu = "none"
    /\ pc = [writer |-> "idle", setter |-> "idle"]
    /\ chk = [op |-> "none", group |-> "", key |-> "", val |-> Nil]
    /\ obs = [r \in Readers |-> [k |-> "none"]]
    /\ installed = {}
    /\ shadow = [r |-> FALSE, w |-> FALSE, race |-> FALSE]
    /\ calls = [set |-> 0, install |-> 0]

\* init() calls Load() on the files found at start
Init ==
    /\ arch \in Archs
    /\ fs \in [exe : ExeContents, cwd : CwdContents]
    /\ LET r == LoadBody(fs, NilMap, FALSE) IN
        /\ cfg = r.cfg
        /\ loaded = r.loaded
        /\ status = IF r.out = "panic" THEN "panicked" ELSE "running"
        /\ last = [op |-> "init", out |-> r.out]
    /\ dirty = FALSE
    /\ other = NilMap
    /\ ConcIdle

\* the environment rewrites one of the two candidate files
FileChangeExe(c) ==
    /\ status = "running"
    /\ fs' = [fs EXCEPT !.exe = c]
    /\ last' = [op |-> "FileChange", out |-> "ok"]
    /\ UNCHANGED <<arch, other, cfg, loaded, status, dirty, concVars>>

FileChangeCwd(c) ==
    /\ status = "running"
    /\ fs' = [fs EXCEPT !.cwd = c]
    /\ last' = [op |-> "FileChange", out |-> "ok"]
    /\ UNCHANGED <<arch, other, cfg, loaded, status, dirty, concVars>>

\* the bug of a Reload that does not reset the flag
ReloadBody_keepsFlag(f, c0) == LoadBody(f, c0, loaded)

\* Reload: loaded = false; return Load()
ReloadBody(f, c0) == LoadBody(f, c0, FALSE)

Installs(r) ==
    /\ cfg' = r.cfg
    /\ loaded' = r.loaded
    /\ status' = IF r.out = "panic" THEN "panicked" ELSE status
    /\ dirty' = IF r.cfg # cfg \/ (r.out = "nil" /\ ~loaded) THEN FALSE ELSE dirty

Load ==
    /\ status = "running"
    /\ LET r == LoadBody(fs, cfg, loaded) IN
        /\ Installs(r)
        /\ last' = [op |-> "Load", out |-> r.out]
    /\ UNCHANGED <<arch, other, fs, concVars>>

Reload ==
    /\ status = "running"
    /\ LET r == ReloadBody(fs, cfg) IN
        /\ cfg' = r.cfg
        /\ loaded' = r.loaded
        /\ status' = IF r.out = "panic" THEN "panicked" ELSE status
        /\ dirty' = IF r.out = "nil" THEN FALSE ELSE dirty
        /\ last' = [op |-> "Reload", out |-> r.out, dirty |-> dirty]
    /\ UNCHANGED <<arch, other, fs, concVars>>

\* SetConfig(m): cfg.mu.Lock(); cfg.m = m; cfg.mu.Unlock()
SetConfig(m) ==
    /\ status = "running"
    /\ mu = "none"
    /\ cfg' = m
    /\ dirty' = FALSE
    /\ last' = [op |-> "SetConfig", out |-> "ok"]
    /\ UNCHANGED <<arch, other, fs, loaded, status, concVars>>

\* a Set call that leaves c1 as the document
SetDone(op, c1) ==
    /\ status = "running"
    /\ cfg' = c1
    /\ dirty' = (dirty \/ c1 # cfg)
    /\ last' = [op |-> op, out |-> IF c1 # cfg THEN "wrote" ELSE "kept"]
    /\ UNCHANGED <<arch, other, fs, loaded, status, concVars>>

CallSetInt(key, val) == SetDone("SetInt", SetInt(key, val, cfg, arch))
CallSetFloat64(key, val) == SetDone("SetFloat64", SetFloat64(key, val, cfg))
CallSetBool(key, val) == SetDone("SetBool", SetBool(key, val, cfg))
CallSetString(key, val) == SetDone("SetString", SetString(key, val, cfg))
CallSetGroupInt(group, key, val) ==
    SetDone("SetGroupInt", SetGroupInt(group, key, val, cfg, arch))
CallSetGroupFloat64(group, key, val) ==
    SetDone("SetGroupFloat64", SetGroupFloat64(group, key, val, cfg))
CallSetGroupBool(group, key, val) ==
    SetDone("SetGroupBool", SetGroupBool(group, key, val, cfg))
CallSetGroupString(group, key, val) ==
    SetDone("SetGroupString", SetGroupString(group, key, val, cfg))

Next ==
    \/ \E c \in ExeContents : FileChangeExe(c)
    \/ \E c \in CwdContents : FileChangeCwd(c)
    \/ Load
    \/ Reload
    \/ \E m \in Mappings : SetConfig(m)
    \/ \E k \in Key, v \in IntVals : CallSetInt(k, v)
    \/ \E k \in Key, v \in FloatVals : CallSetFloat64(k, v)
    \/ \E k \in Key, v \in BOOLEAN : CallSetBool(k, v)
    \/ \E k \in Key, v \in StrVals : CallSetString(k, v)
    \/ \E g \in Groups, k \in Key, v \in IntVals : CallSetGroupInt(g, k, v)
    \/ \E g \in Groups, k \in Key, v \in FloatVals : CallSetGroupFloat64(g, k, v)
    \/ \E g \in Groups, k \in Key, v \in BOOLEAN : CallSetGroupBool(g, k, v)
    \/ \E g \in Groups, k \in Key, v \in StrVals : CallSetGroupString(g, k, v)

Spec == Init /\ [][Next]_vars

----------------------------------------------------------------------------
(* The accessors as pure functions of the document: the calls are applied  *)
(* to documents drawn from a bounded set                                   *)

DocOf(c) == Decode(c.json).v

BaseDocs == {NilMap, DocOf(ObjA), DocOf(ObjB), MapC}

\* the base documents and what one Set call makes of them
ReadDocs ==
    BaseDocs
    \cup {SetInt(k, v, d, "amd64") :
            k \in Key, v \in IntVals \cup {MaxInt64}, d \in BaseDocs}
    \cup {SetFloat64(k, v, d) : k \in Key, v \in FloatVals, d \in BaseDocs}
    \cup {SetGroupInt(g, k, v, d, "amd64") :
            g \in Groups, k \in Key, v \in IntVals, d \in BaseDocs}

ReadInit ==
    /\ arch \in Archs
    /\ fs = [exe |-> Missing, cwd |-> Missing]
    /\ cfg \in ReadDocs
    /\ loaded = FALSE
    /\ status = "running"
    /\ last = [op |-> "init", out |-> "nil"]
    /\ dirty = FALSE
    /\ other = NilMap
    /\ ConcIdle

\* a call of a plain accessor: the document is only read
CallAccessor(kind, group, key) ==
    /\ status = "running"
    /\ last' = [op |-> "Accessor", kind |-> kind, group |-> group, key |-> key,
                ret |-> Accessor(kind, group, key, cfg, arch)]
    /\ UNCHANGED <<arch, other, fs, cfg, loaded, status, dirty, concVars>>

\* a call of Config.Required<kind>: log.Fatalf ends the process
CallRequired(kind, group, key) ==
    /\ status = "running"
    /\ LET r == Required(kind, group, key, cfg, arch) IN
        /\ status' = IF r.out = "exit" THEN "exited" ELSE status
        /\ last' = [op |-> "Required", kind |-> kind, group |-> group, key |-> key,
                    out |-> r.out, v |-> r.v]
    /\ UNCHANGED <<arch, other, fs, cfg, loaded, dirty, concVars>>

\* a call of Required.<kind> of config.go: the panic unwinds the caller
CallRequiredPanic(kind, group, key) ==
    /\ status = "running"
    /\ LET r == requiredPanic(kind, group, key, cfg, arch) IN
        /\ status' = IF r.out = "panic" THEN "panicked" ELSE status
        /\ last' = [op |-> "required", kind |-> kind, group |-> group, key |-> key,
                    out |-> r.out, v |-> r.v]
    /\ UNCHANGED <<arch, other, fs, cfg, loaded, dirty, concVars>>

ReadNext ==
    \/ \E kind \in RootKinds, k \in Key : CallAccessor(kind, "", k)
    \/ \E kind \in GroupKinds, g \in Groups, k \in Key : CallAccessor(kind, g, k)
    \/ \E kind \in RootKinds, k \in Key : CallRequired(kind, "", k)
    \/ \E kind \in GroupKinds, g \in Groups, k \in Key : CallRequired(kind, g, k)
    \/ \E kind \in RootKinds, k \in Key : CallRequiredPanic(kind, "", k)
    \/ \E kind \in GroupKinds, g \in Groups, k \in Key : CallRequiredPanic(kind, g, k)

SpecRead == ReadInit /\ [][ReadNext]_vars

----------------------------------------------------------------------------
(* Concurrent scenarios.  The package-level functions read and write cfg   *)
(* without cfg.mu; only SetConfig takes it.  An access to cfg that is not  *)
(* ordered with a write of another goroutine is a data race.  The Go       *)
(* memory model gives a racy read of a word-sized location one of the      *)
(* values written to it, and lets the implementation (a race-detector      *)
(* build) report the race and end the program instead.                    *)

\* SetConfig, first step: cfg.mu.Lock()
ConfigLock ==
    /\ status = "running"
    /\ pc.writer = "idle"
    /\ calls.install < MaxInstall
    /\ mu = "none"
    /\ mu' = "writer"
    /\ pc' = [pc EXCEPT !.writer = "locked"]
    /\ UNCHANGED <<arch, other, fs, cfg, loaded, status, last, dirty, chk, obs, installed,
                   shadow, calls>>

\* a write of cfg by the replacing goroutine: the document becomes m, or
\* the race with an earlier unlocked read is reported and the program ends
StoreOrRace(m) ==
    \/ /\ cfg' = m
       /\ installed' = installed \cup {m}
       /\ shadow' = [shadow EXCEPT !.w = TRUE]
       /\ status' = status
    \/ /\ shadow.r
       /\ shadow' = [shadow EXCEPT !.race = TRUE]
       /\ status' = "exited"
       /\ UNCHANGED <<cfg, installed>>

\* SetConfig, second step: cfg.m = m
ConfigStore(m) ==
    /\ status = "running"
    /\ pc.writer = "locked"
    /\ StoreOrRace(m)
    /\ pc' = [pc EXCEPT !.writer = "stored"]
    /\ UNCHANGED <<arch, other, fs, loaded, last, dirty, mu, chk, obs, calls>>

\* SetConfig, last step: the deferred cfg.mu.Unlock()
ConfigUnlock ==
    /\ status = "running"
    /\ pc.writer = "stored"
    /\ mu' = "none"
    /\ pc' = [pc EXCEPT !.writer = "idle"]
    /\ calls' = [calls EXCEPT !.install = @ + 1]
    /\ UNCHANGED <<arch, other, fs, cfg, loaded, status, last, dirty, chk, obs, installed,
                   shadow>>

\* a call of a plain accessor by reader r: cfg is copied without cfg.mu.
\* The copy holds one of the documents written so far, or the race with a
\* write is reported and the program ends.
ReaderCall(r, kind, group, key) ==
    /\ status = "running"
    /\ \/ /\ \E d \in installed :
                obs' = [obs EXCEPT ![r] = [k |-> "value", kind |-> kind,
                            group |-> group, key |-> key,
                            ret |-> Accessor(kind, group, key, d, arch)]]
          /\ shadow' = [shadow EXCEPT !.r = TRUE]
          /\ status' = status
       \/ /\ shadow.w
          /\ obs' = [obs EXCEPT ![r] = [k |-> "race"]]
          /\ shadow' = [shadow EXCEPT !.race = TRUE]
          /\ status' = "exited"
    /\ UNCHANGED <<arch, other, fs, cfg, loaded, last, dirty, mu, pc, chk, installed, calls>>

\* the documents the writer hands to SetConfig
SwapDocs == Mappings \cup {DocOf(ObjA), DocOf(ObjB)}

\* var cfg, _ = Read(): the document of the file, or the zero Config
SwapInit ==
    /\ arch \in Archs
    /\ fs \in {[exe |-> Missing, cwd |-> Missing], [exe |-> Missing, cwd |-> ObjA]}
    /\ cfg = LoadBody(fs, NilMap, FALSE).cfg
    /\ loaded = (fs.cwd # Missing)
    /\ status = "running"
    /\ last = [op |-> "init", out |-> "nil"]
    /\ dirty = FALSE
    /\ other = NilMap
    /\ mu = "none"
    /\ pc = [writer |-> "idle", setter |-> "idle"]
    /\ chk = [op |-> "none", group |-> "", key |-> "", val |-> Nil]
    /\ obs = [r \in Readers |-> [k |-> "none"]]
    /\ installed = {cfg}
    /\ shadow = [r |-> FALSE, w |-> FALSE, race |-> FALSE]
    /\ calls = [set |-> 0, install |-> 0]

SwapNext ==
    \/ ConfigLock
    \/ \E m \in SwapDocs : ConfigStore(m)
    \/ ConfigUnlock
    \/ \E r \in Readers, kind \in RootKinds : ReaderCall(r, kind, "", "host")
    \/ \E r \in Readers, kind \in GroupKinds : ReaderCall(r, kind, "links", "host")

\* one goroutine calls SetConfig repeatedly while the readers call accessors
SpecSwap == SwapInit /\ [][SwapNext]_vars

RootSetOps == {"SetInt", "SetFloat64", "SetBool", "SetString"}
GroupSetOps == {"SetGroupInt", "SetGroupFloat64", "SetGroupBool", "SetGroupString"}

\* the accessor a Set call consults
KindOfSet(op) ==
    CASE op = "SetInt" -> "Int"
      [] op = "SetFloat64" -> "Float64"
      [] op = "SetBool" -> "Bool"
      [] op = "SetString" -> "String"
      [] op = "SetGroupInt" -> "GroupInt"
      [] op = "SetGroupFloat64" -> "GroupFloat64"
      [] op = "SetGroupBool" -> "GroupBool"
      [] op = "SetGroupString" -> "GroupString"

\* the values a Set call of the model stores
ValsOfSet(op) ==
    CASE op \in {"SetInt", "SetGroupInt"} -> {GoInt(v) : v \in IntVals}
      [] op \in {"SetFloat64", "SetGroupFloat64"} -> {GoFloat64(v) : v \in FloatVals}
      [] op \in {"SetBool", "SetGroupBool"} -> {GoBool(v) : v \in BOOLEAN}
      [] op \in {"SetString", "SetGroupString"} -> {GoString(v) : v \in StrVals}

\* a Set call, first step: if _, ok := <accessor>(key); ok.  When the
\* accessor reports not found the call returns.
SetterCheck(op, group, key, val) ==
    /\ status = "running"
    /\ pc.setter = "idle"
    /\ calls.set < MaxSet
    /\ shadow' = [shadow EXCEPT !.r = TRUE]
    /\ IF Accessor(KindOfSet(op), group, key, cfg, arch).ok
        THEN /\ pc' = [pc EXCEPT !.setter = "checked"]
             /\ chk' = [op |-> op, group |-> group, key |-> key, val |-> val]
             /\ UNCHANGED <<last, calls>>
        ELSE /\ last' = [op |-> op, group |-> group, key |-> key, out |-> "kept",
                         readable |-> FALSE]
             /\ calls' = [calls EXCEPT !.set = @ + 1]
             /\ UNCHANGED <<pc, chk>>
    /\ UNCHANGED <<arch, other, fs, cfg, loaded, status, dirty, mu, obs, installed>>

\* a Set call, second step: the write into the document cfg names now
SetterWrite ==
    /\ status = "running"
    /\ pc.setter = "checked"
    /\ LET panics == chk.op \in GroupSetOps /\ writeGroupPanics(chk.group, cfg) IN
        /\ cfg' = IF panics THEN cfg
                  ELSE IF chk.op \in GroupSetOps
                      THEN writeGroup(chk.group, chk.key, chk.val, cfg)
                  ELSE writeRoot(chk.key, chk.val, cfg)
        /\ status' = IF panics THEN "panicked" ELSE status
        /\ last' = [op |-> chk.op, group |-> chk.group, key |-> chk.key,
                    out |-> IF panics THEN "panic" ELSE "wrote",
                    readable |->
                        Accessor(KindOfSet(chk.op), chk.group, chk.key, cfg, arch).ok]
    /\ pc' = [pc EXCEPT !.setter = "idle"]
    /\ calls' = [calls EXCEPT !.set = @ + 1]
    /\ dirty' = TRUE
    /\ UNCHANGED <<arch, other, fs, loaded, mu, chk, obs, installed, shadow>>

\* Reload by the replacing goroutine: no lock is taken
ConcReload ==
    /\ status = "running"
    /\ pc.writer = "idle"
    /\ calls.install < MaxInstall
    /\ LET r == ReloadBody(fs, cfg) IN
        /\ r.out = "nil"
        /\ StoreOrRace(r.cfg)
        /\ loaded' = IF status' = "running" THEN r.loaded ELSE FALSE
    /\ calls' = [calls EXCEPT !.install = @ + 1]
    /\ UNCHANGED <<arch, other, fs, last, dirty, mu, pc, chk, obs>>

RaceInit ==
    /\ arch = "amd64"
    /\ fs \in {[exe |-> Missing, cwd |-> ObjA], [exe |-> ObjB, cwd |-> ObjA]}
    /\ cfg = LoadBody(fs, NilMap, FALSE).cfg
    /\ loaded = TRUE
    /\ status = "running"
    /\ last = [op |-> "init", out |-> "nil"]
    /\ dirty = FALSE
    /\ other = NilMap
    /\ mu = "none"
    /\ pc = [writer |-> "idle", setter |-> "idle"]
    /\ chk = [op |-> "none", group |-> "", key |-> "", val |-> Nil]
    /\ obs = [r \in Readers |-> [k |-> "none"]]
    /\ installed = {cfg}
    /\ shadow = [r |-> FALSE, w |-> FALSE, race |-> FALSE]
    /\ calls = [set |-> 0, install |-> 0]

RaceNext ==
    \/ ConfigLock
    \/ \E m \in Mappings : ConfigStore(m)
    \/ ConfigUnlock
    \/ ConcReload
    \/ \E op \in RootSetOps, k \in Key :
        \E v \in ValsOfSet(op) : SetterCheck(op, "", k, v)
    \/ \E op \in GroupSetOps, g \in Groups, k \in Key :
        \E v \in ValsOfSet(op) : SetterCheck(op, g, k, v)
    \/ SetterWrite

\* one goroutine calls Set while another replaces the document
SpecRace == RaceInit /\ [][RaceNext]_vars

----------------------------------------------------------------------------
(* Two stores: the package-level one and a Config built with ReadFrom *)

\* the bytes handed to ReadFrom
ReadFromBytes == {Invalid, TopArray, Text(JNull), ObjA, ObjB}

Stores == {"cfg", "other"}

StoreInit ==
    /\ arch = "amd64"
    /\ fs \in [exe : {Missing}, cwd : CwdContents]
    /\ LET r == LoadBody(fs, NilMap, FALSE) IN
        /\ cfg = r.cfg
        /\ loaded = r.loaded
        /\ status = IF r.out = "panic" THEN "panicked" ELSE "running"
        /\ last = [op |-> "init", out |-> r.out]
    /\ dirty = FALSE
    /\ other = NilMap
    /\ ConcIdle

\* c, err := ReadFrom(b): c replaces the independent Config
CallReadFrom(b) ==
    /\ status = "running"
    /\ LET r == ReadFrom(b) IN
        /\ other' = IF r.out = "panic" THEN other ELSE r.m
        /\ status' = IF r.out = "panic" THEN "panicked" ELSE "running"
        /\ last' = [op |-> "ReadFrom", out |-> r.out, b |-> b]
    /\ UNCHANGED <<arch, fs, cfg, loaded, dirty, concVars>>

\* Keys() of the package, or c.Keys() of the independent Config
CallKeys(s) ==
    /\ status = "running"
    /\ last' = [op |-> "Keys", store |-> s,
                ret |-> IF s = "cfg" THEN Keys(cfg) ELSE ConfigKeys(other, cfg)]
    /\ UNCHANGED <<arch, other, fs, cfg, loaded, status, dirty, concVars>>

\* GroupKeys(group) of the package, or c.GroupKeys(group)
CallGroupKeys(s, group) ==
    /\ status = "running"
    /\ last' = [op |-> "GroupKeys", store |-> s, group |-> group,
                ret |-> IF s = "cfg" THEN GroupKeys(group, cfg)
                        ELSE ConfigGroupKeys(other, group)]
    /\ UNCHANGED <<arch, other, fs, cfg, loaded, status, dirty, concVars>>

StoreNext ==
    \/ \E c \in CwdContents : FileChangeCwd(c)
    \/ Load
    \/ Reload
    \/ \E m \in Mappings : SetConfig(m)
    \/ \E b \in ReadFromBytes : CallReadFrom(b)
    \/ \E s \in Stores : CallKeys(s)
    \/ \E s \in Stores, g \in Key : CallGroupKeys(s, g)

SpecStore == StoreInit /\ [][StoreNext]_vars

----------------------------------------------------------------------------
(* Numeric writes: SetInt and SetFloat64 calls, the ends of the range included *)

NumIntVals == IntVals \cup {MaxInt64}

\* a fractional value, a whole value and 2^63
NumFloatVals == FloatVals \cup {<<0, 10 * MaxNum>>, <<1, 0>>}

NumInit ==
    /\ arch \in Archs
    /\ fs = [exe |-> Missing, cwd |-> Missing]
    /\ cfg \in {DocOf(ObjA), DocOf(ObjB)}
    /\ loaded = TRUE
    /\ status = "running"
    /\ last = [op |-> "init", out |-> "nil"]
    /\ dirty = FALSE
    /\ other = NilMap
    /\ ConcIdle

\* a numeric Set call of value val that leaves c1 as the document
NumSetDone(op, group, key, val, c1) ==
    /\ status = "running"
    /\ cfg' = c1
    /\ dirty' = (dirty \/ c1 # cfg)
    /\ last' = [op |-> op, group |-> group, key |-> key, val |-> val]
    /\ UNCHANGED <<arch, other, fs, loaded, status, concVars>>

NumSetInt(key, val) ==
    NumSetDone("SetInt", "", key, GoInt(val), SetInt(key, val, cfg, arch))
NumSetFloat64(key, val) ==
    NumSetDone("SetFloat64", "", key, GoFloat64(val), SetFloat64(key, val, cfg))
NumSetGroupInt(group, key, val) ==
    NumSetDone("SetGroupInt", group, key, GoInt(val),
               SetGroupInt(group, key, val, cfg, arch))
NumSetGroupFloat64(group, key, val) ==
    NumSetDone("SetGroupFloat64", group, key, GoFloat64(val),
               SetGroupFloat64(group, key, val, cfg))

NumNext ==
    \/ \E k \in Key, v \in NumIntVals : NumSetInt(k, v)
    \/ \E k \in Key, v \in NumFloatVals : NumSetFloat64(k, v)
    \/ \E g \in Groups, k \in Key, v \in NumIntVals : NumSetGroupInt(g, k, v)
    \/ \E g \in Groups, k \in Key, v \in NumFloatVals : NumSetGroupFloat64(g, k, v)

SpecNum == NumInit /\ [][NumNext]_vars

----------------------------------------------------------------------------
(* Vocabulary of the properties *)

\* the JSON type of a Go value
JSONType(x) ==
    CASE x.t = "nil" -> "null"
      [] x.t = "bool" -> "boolean"
      [] x.t = "string" -> "string"
      [] x.t \in {"float64", "int"} -> "number"
      [] x.t = "slice" -> "array"
      [] x.t = "map" -> "object"

\* the keys of group g of document c (none unless g is a map)
KeysOfGroup(g, c) ==
    IF g \in DOMAIN c /\ c[g].t = "map" THEN DOMAIN c[g].v ELSE {}

\* c1 has the keys of c0, at the root and in every group, each with the JSON
\* type it has in c0
SameShape(c0, c1) ==
    /\ DOMAIN c1 = DOMAIN c0
    /\ \A k \in DOMAIN c0 : JSONType(c1[k]) = JSONType(c0[k])
    /\ \A g \in DOMAIN c0 :
        /\ KeysOfGroup(g, c1) = KeysOfGroup(g, c0)
        /\ \A k \in KeysOfGroup(g, c0) : JSONType(c1[g].v[k]) = JSONType(c0[g].v[k])

\* the root accessor of the type of a group accessor
RootKindOf(kind) ==
    CASE kind = "GroupBool" -> "Bool"
      [] kind = "GroupString" -> "String"
      [] kind = "GroupInt" -> "Int"
      [] kind = "GroupFloat64" -> "Float64"
      [] kind = "GroupVal" -> "Val"

\* the Go zero value of the result type of an accessor
ZeroValue(kind) ==
    CASE kind \in {"Bool", "GroupBool"} -> FALSE
      [] kind \in {"String", "GroupString"} -> ""
      [] kind \in {"Int", "GroupInt"} -> <<0, 0>>
      [] kind \in {"Float64", "GroupFloat64"} -> <<0, 0>>
      [] kind \in {"Val", "GroupVal"} -> Nil

\* the number a numeric Go value stands for, in tenths: <<big, x>>
NumberOf(x) == IF x.t = "int" THEN <<x.v[1], x.v[2] * 10>> ELSE x.v

\* the file Load reads: the first candidate path that exists
FileRead(f) == IF f.exe.k # "missing" THEN f.exe ELSE f.cwd

\* Reload cannot succeed on these files: no file, or content that is not a
\* JSON object
ReloadMustFail(f) ==
    \/ FileRead(f).k # "text"
    \/ ~FileRead(f).valid
    \/ FileRead(f).json.t # "object"

----------------------------------------------------------------------------
(* C1 *)

\* C1: in every step of a Set<Type> or SetGroup<Type> call, a value changes
\* only at a key for which the accessor of the same type reported found
\* before the call, and the document keeps its shape: the same keys at the
\* root and in every group, each with the JSON type it had.
C1_SetOnlyOverwritesSameType ==
    [][last'.op \in RootSetOps \cup GroupSetOps =>
        /\ SameShape(cfg, cfg')
        /\ last'.op \in RootSetOps =>
            \A k \in DOMAIN cfg :
                cfg'[k] # cfg[k] =>
                    Accessor(KindOfSet(last'.op), "", k, cfg, arch).ok
        /\ last'.op \in GroupSetOps =>
            \A g \in DOMAIN cfg :
                cfg'[g] # cfg[g] =>
                    /\ cfg[g].t = "map"
                    /\ \A k \in DOMAIN cfg[g].v :
                        cfg'[g].v[k] # cfg[g].v[k] =>
                            Accessor(KindOfSet(last'.op), g, k, cfg, arch).ok
    ]_vars

\* a SetString has overwritten the string at "host"; a SetString on the
\* null "debug" of the same document would have changed nothing
C1_Witness ==
    /\ last = [op |-> "SetString", out |-> "wrote"]
    /\ "host" \in DOMAIN cfg
    /\ cfg["host"] = GoString("x")
    /\ "debug" \in DOMAIN cfg
    /\ SetString("debug", "x", cfg) = cfg

----------------------------------------------------------------------------
(* C2 *)

\* C2: after a Reload that returned nil, the document is the decoding of the
\* file that Reload read, whatever Set calls had written before, and every
\* accessor answers as it does on that decoding.
C2_ReloadInstallsFile ==
    (last.op = "Reload" /\ last.out = "nil") =>
        /\ cfg = DocOf(FileRead(fs))
        /\ \A kind \in Kinds, g \in Key, k \in Key :
            Accessor(kind, g, k, cfg, arch) =
                Accessor(kind, g, k, DocOf(FileRead(fs)), arch)

\* a Reload succeeded on a document that Set calls had written to
C2_Witness ==
    /\ last.op = "Reload"
    /\ last.out = "nil"
    /\ last.dirty
    /\ ~dirty

----------------------------------------------------------------------------
(* C3 *)

\* C3: while SetConfig is called repeatedly, every accessor call of a reader
\* returns the result it has against one of the documents installed, and no
\* reader call ends in a crash.
C3_ReadersSeeOneInstalledDocument ==
    /\ ~shadow.race
    /\ \A r \in Readers :
        /\ obs[r].k # "race"
        /\ obs[r].k = "value" =>
            \E d \in installed :
                obs[r].ret = Accessor(obs[r].kind, obs[r].group, obs[r].key, d, arch)

----------------------------------------------------------------------------
(* C4 *)

\* C4: the existence check and the write of a Set call are not interleaved
\* with a replacement of the document: a Set call that writes, writes a key
\* that is readable as the requested type in the document it writes to, and
\* never fails on a group that is no mapping.
C4_SetWritesOnlyReadableKey ==
    (last.op \in RootSetOps \cup GroupSetOps /\ last.out # "kept") =>
        /\ last.out = "wrote"
        /\ last.readable

----------------------------------------------------------------------------
(* C5 *)

----------------------------------------------------------------------------
(* C6 *)

\* C6: a group accessor reports not found when the group is absent from the
\* root, when the group is not a mapping and when the key is absent within
\* the group; in every other case its result is the result of the root
\* accessor of the same type on the nested mapping.
C6_GroupAccessor ==
    \A kind \in GroupKinds, g \in Key, k \in Key :
        LET r == Accessor(kind, g, k, cfg, arch) IN
        IF g \notin DOMAIN cfg THEN ~r.ok
        ELSE IF cfg[g].t # "map" THEN ~r.ok
        ELSE IF k \notin DOMAIN cfg[g].v THEN ~r.ok
        ELSE r = Accessor(RootKindOf(kind), "", k, cfg[g].v, arch)

\* GroupString("links", "host") has returned the link of the document, and
\* "debug", which is no mapping, is a group of the same document
C6_Witness ==
    /\ last.op = "Accessor"
    /\ last.kind = "GroupString"
    /\ last.group = "links"
    /\ last.ret = [v |-> "https://google.com", ok |-> TRUE]
    /\ "debug" \in DOMAIN cfg
    /\ ~GroupString("debug", "host", cfg).ok

----------------------------------------------------------------------------
(* C7 *)

\* C7: the found flag of a root accessor depends on the JSON type of the
\* stored value alone: Bool finds booleans, String strings, Int and Float64
\* numbers, Val every key that is present; Bool, String and Val return the
\* stored value unchanged.
C7_FoundByJSONType ==
    \A k \in Key :
        LET has(ty) == k \in DOMAIN cfg /\ JSONType(cfg[k]) = ty IN
        /\ RootBool(k, cfg).ok <=> has("boolean")
        /\ RootString(k, cfg).ok <=> has("string")
        /\ RootInt(k, cfg, arch).ok <=> has("number")
        /\ RootFloat64(k, cfg).ok <=> has("number")
        /\ RootVal(k, cfg).ok <=> k \in DOMAIN cfg
        /\ RootBool(k, cfg).ok => RootBool(k, cfg).v = cfg[k].v
        /\ RootString(k, cfg).ok => RootString(k, cfg).v = cfg[k].v
        /\ RootVal(k, cfg).ok => RootVal(k, cfg).v = cfg[k]

\* Int has found a number that SetInt stored as a Go int, and Val finds the
\* nested mapping of the same document
C7_Witness ==
    /\ last.op = "Accessor"
    /\ last.kind = "Int"
    /\ last.ret.ok
    /\ cfg[last.key].t = "int"
    /\ RootVal("links", cfg).ok
    /\ RootVal("links", cfg).v.t = "map"

----------------------------------------------------------------------------
(* C8 *)

\* C8: for every key that holds a JSON number n, Int returns n truncated
\* toward zero and Float64 returns n, both with found = true.
C8_IntTruncatesFloat64Exact ==
    \A k \in DOMAIN cfg :
        JSONType(cfg[k]) = "number" =>
            /\ RootInt(k, cfg, arch) = [v |-> Trunc(NumberOf(cfg[k])), ok |-> TRUE]
            /\ RootFloat64(k, cfg) = [v |-> NumberOf(cfg[k]), ok |-> TRUE]

----------------------------------------------------------------------------
(* C9 *)

\* C9: an accessor that reports not found returns the zero value of its
\* type: false, "", 0, 0, nil.
C9_NotFoundReturnsZero ==
    \A kind \in Kinds, g \in Key, k \in Key :
        LET r == Accessor(kind, g, k, cfg, arch) IN
        ~r.ok => r.v = ZeroValue(kind)

----------------------------------------------------------------------------
(* C10 *)

\* C10: a Reload on a missing or unparsable file returns an error and
\* leaves the document as it was.
C10_FailedReloadReturnsErrorKeepsDocument ==
    [][(last'.op = "Reload" /\ status = "running" /\ ReloadMustFail(fs)) =>
        /\ last'.out = "error"
        /\ cfg' = cfg
    ]_vars

----------------------------------------------------------------------------
(* C11 *)

\* the bytes b are not valid JSON, or their top-level value is not an object
ParseFails(b) == b.k = "text" /\ (~b.valid \/ b.json.t # "object")

\* C11: a Load or Reload that reads a file whose bytes are not valid JSON or
\* whose root is not an object, and a ReadFrom of such bytes, returns an
\* error: the process keeps running and no document is installed.
C11_ParseErrorIsReturned ==
    [][/\ (/\ last'.op \in {"Load", "Reload"}
           /\ (last'.op = "Reload" \/ ~loaded)
           /\ ParseFails(FileRead(fs)))
          => (last'.out = "error" /\ status' = "running" /\ cfg' = cfg)
       /\ (last'.op = "ReadFrom" /\ ParseFails(last'.b))
          => (last'.out = "error" /\ status' = "running" /\ other' = NilMap)]_vars

----------------------------------------------------------------------------
(* C12 *)

\* the document of a store
StoreDoc(s) == IF s = "cfg" THEN cfg ELSE other

\* C12: Keys() of a store returns the root keys of that store's own document
\* and GroupKeys(g) the keys of its group g (none when g is absent or is not
\* a mapping), for the package-level store and for one built with ReadFrom.
C12_KeysOfOwnDocument ==
    /\ last.op = "Keys" => last.ret = DOMAIN StoreDoc(last.store)
    /\ last.op = "GroupKeys"
        => last.ret = KeysOfGroup(last.group, StoreDoc(last.store))

----------------------------------------------------------------------------
(* C13 *)

\* Int and Float64 of key at the root (group "") or in a group
IntOf(group, key, c) ==
    IF group = "" THEN RootInt(key, c, arch) ELSE GroupInt(group, key, c, arch)
FloatOf(group, key, c) ==
    IF group = "" THEN RootFloat64(key, c) ELSE GroupFloat64(group, key, c)

\* key holds a JSON number at the root (group "") or in the group
HoldsNumber(group, key, c) ==
    IF group = "" THEN key \in DOMAIN c /\ JSONType(c[key]) = "number"
    ELSE /\ key \in KeysOfGroup(group, c)
         /\ JSONType(c[group].v[key]) = "number"

\* the number x has no fractional part
Whole(x) == x.t = "int" \/ x.v[2] % 10 = 0

NumSetOps == {"SetInt", "SetFloat64", "SetGroupInt", "SetGroupFloat64"}

\* C13: a key that holds a number is still found by Int and by Float64 after
\* every SetInt, SetFloat64, SetGroupInt or SetGroupFloat64 call, and when
\* the value just written to it is whole the two accessors return the same
\* number.
C13_NumericCoercion ==
    [][\A g \in {""} \cup Groups, k \in Key :
        HoldsNumber(g, k, cfg) =>
            /\ IntOf(g, k, cfg').ok
            /\ FloatOf(g, k, cfg').ok
            /\ (/\ last'.op \in NumSetOps
                /\ last'.group = g
                /\ last'.key = k
                /\ Whole(last'.val))
               => NumberOf(GoInt(IntOf(g, k, cfg').v)) = FloatOf(g, k, cfg').v]_vars

----------------------------------------------------------------------------
(* C14 *)

\* the mapping col without key
Without(col, key) == [k \in DOMAIN col \ {key} |-> col[k]]

\* the document c without key in its group g (a mapping of c)
WithoutInGroup(c, g, key) == [c EXCEPT ![g] = GoMap(Without(c[g].v, key))]

\* the value x is null, or is not of the type the root accessor kind returns
NullOrWrongType(kind, x) ==
    CASE kind = "Bool" -> x.t # "bool"
      [] kind = "String" -> x.t # "string"
      [] kind \in {"Int", "Float64"} -> x.t \notin {"int", "float64"}
      [] kind = "Val" -> x.t = "nil"

\* the accessors of kinds rk (root) and gk (group) treat a key present with a
\* null or wrong-type value as the same key absent from the same mapping
AsAbsent(rk, gk) ==
    /\ \A kind \in rk, k \in DOMAIN cfg :
        NullOrWrongType(kind, cfg[k]) =>
            LET r == Accessor(kind, "", k, cfg, arch) IN
            /\ ~r.ok
            /\ r = Accessor(kind, "", k, Without(cfg, k), arch)
    /\ \A kind \in gk, g \in Key :
        \A k \in KeysOfGroup(g, cfg) :
            NullOrWrongType(RootKindOf(kind), cfg[g].v[k]) =>
                LET r == Accessor(kind, g, k, cfg, arch) IN
                /\ ~r.ok
                /\ r = Accessor(kind, g, k, WithoutInGroup(cfg, g, k), arch)

\* C14 as stated: every accessor, Val and GroupVal included, gives for a key
\* present with a null or wrong-type value the result it gives for the key
\* absent: not found.
C14_NullOrWrongTypeAsAbsent == AsAbsent(RootKinds, GroupKinds)

\* C14: Bool, String, Int, Float64 and their group variants give for a key
\* present with a null or wrong-type value the (value, found) they give when
\* the key is absent from the same mapping, not found; Val and GroupVal
\* report a key present with null as found and return nil.
C14_TypedNullOrWrongTypeAsAbsent ==
    /\ AsAbsent(RootKinds \ {"Val"}, GroupKinds \ {"GroupVal"})
    /\ \A k \in DOMAIN cfg :
        cfg[k] = Nil => RootVal(k, cfg) = [v |-> Nil, ok |-> TRUE]
    /\ \A g \in Key :
        \A k \in KeysOfGroup(g, cfg) :
            cfg[g].v[k] = Nil => GroupVal(g, k, cfg) = [v |-> Nil, ok |-> TRUE]

\* Bool("debug") has reported not found on a document whose "debug" is null,
\* Val finds that key, and String does not find "links", a mapping
C14_Witness ==
    /\ last.op = "Accessor"
    /\ last.kind = "Bool"
    /\ last.key = "debug"
    /\ "debug" \in DOMAIN cfg
    /\ cfg["debug"] = Nil
    /\ last.ret = [v |-> FALSE, ok |-> FALSE]
    /\ RootVal("debug", cfg) = [v |-> Nil, ok |-> TRUE]
    /\ "links" \in DOMAIN cfg
    /\ cfg["links"].t = "map"
    /\ ~RootString("links", cfg).ok

----------------------------------------------------------------------------
(* C15 *)

\* C15: while the flag of a successful Load is set, a Load call returns nil
\* and leaves the document and the flag alone, whatever the document and the
\* files have become; only Reload clears the flag, and it leaves it cleared
\* when it fails; a Load that finds the flag cleared reads the file: it
\* installs the document of the file or does not return nil.
C15_LoadReadsOnceUntilReload ==
    [][/\ (last'.op = "Load" /\ loaded)
          => (last'.out = "nil" /\ cfg' = cfg /\ loaded')
       /\ (loaded /\ ~loaded') => last'.op = "Reload"
       /\ (last'.op = "Reload" /\ last'.out # "nil") => ~loaded'
       /\ (last'.op = "Load" /\ ~loaded)
          => IF ReloadMustFail(fs) THEN last'.out # "nil" /\ cfg' = cfg /\ ~loaded'
             ELSE /\ last'.out = "nil"
                  /\ cfg' = DocOf(FileRead(fs))
                  /\ loaded']_vars

\* Load has returned nil and kept a document that a Set call has changed,
\* while the file it would read cannot be loaded any more
C15_Witness ==
    /\ last.op = "Load"
    /\ last.out = "nil"
    /\ loaded
    /\ dirty
    /\ ReloadMustFail(fs)

====
